---------------------------- MODULE Spec2Model ----------------------------
(***************************************************************************)
(* Model of src/src/ebay_scrape_to_fileexchange.py: the row reconciler     *)
(* (build_output_row, normalize_price), the text rewriter                  *)
(* (openai_optimize) and the pipeline driver (main).                       *)
(*                                                                         *)
(* Python str values are TLA+ strings.  String functions are computed over *)
(* a finite universe of strings with \o: s.startswith(p) is "s = p \o t    *)
(* for some t", s.strip() is the blank-free core t with s = l \o t \o r.   *)
(* Python floats are integers counting thousandths; Optional[float] is a   *)
(* sequence of length 0 (None) or 1.  A dict is a function, a missing key  *)
(* a key outside its DOMAIN.                                               *)
(***************************************************************************)
EXTENDS Integers, Sequences, FiniteSets, TLC

VARIABLES
    headers,        \* build_output_row / main: the template's column names, in order
    seed,           \* build_output_row: the seed row (column name -> str)
    listing,        \* build_output_row: the scraped values passed in (a ScrapeResult)
    result,         \* build_output_row: what the call produced (a row or an exception)
    args,           \* main: the parsed command line
    env,            \* main: OPENAI_API_KEY configured, openai importable
    seed_df,        \* main: the seed table, a sequence of seed rows
    idx,            \* main: position of the for loop in seed_df
    pc,             \* main: the statement the driver is at
    cur,            \* main: the locals of the current iteration
    preview_rows,   \* main: the preview buffer
    final_rows,     \* main: the final-rows buffer
    files,          \* main: the CSV files written so far
    printed,        \* main: the "Done. Wrote N rows" count, once printed
    exc,            \* main: the exception that ended the run, if any
    log,            \* history: one entry per fetch and per iteration of the loop
    page,           \* scrape_ebay_listing: what the fetched page holds
    opts,           \* scrape_ebay_listing: use_selenium, selenium importable
    spc,            \* scrape_ebay_listing: the statement the call is at
    sc,             \* scrape_ebay_listing: its locals
    driver,         \* scrape_ebay_listing: the browser session and its context
    trace           \* history: the driver calls made, in order

rowVars  == <<headers, seed, listing, result>>
mainVars == <<args, env, seed_df, idx, pc, cur, preview_rows, final_rows,
              files, printed, exc, log>>
scrapeVars == <<page, opts, spc, sc, driver, trace>>
vars     == <<headers, seed, listing, result, args, env, seed_df, idx, pc, cur,
              preview_rows, final_rows, files, printed, exc, log,
              page, opts, spc, sc, driver, trace>>

(***************************************************************************)
(* Bounds                                                                  *)
(***************************************************************************)
\* longest schema drawn from the whole template
MaxCols == 2
\* longest seed table of a run of main
MaxRows == 2

(***************************************************************************)
(* Python values                                                           *)
(***************************************************************************)
\* None, where a str is expected (dict.get without a default)
None == "<None>"

\* Optional[float]
NoneF == << >>
Some(x) == <<x>>

\* truthiness of a str-or-None value
Truthy(v) == v # None /\ v # ""

\* Python's "a or b"
Or(a, b) == IF Truthy(a) THEN a ELSE b

\* Mapping.get(key, default)
Get(d, k, default) == IF k \in DOMAIN d THEN d[k] ELSE default

\* d[k] = v
Put(d, k, v) == [x \in (DOMAIN d) \cup {k} |-> IF x = k THEN v ELSE d[x]]

\* x in list
InList(x, list) == \E i \in DOMAIN list : list[i] = x

\* the whitespace runs str.strip() is exercised with
Blanks == {"", " ", "  "}

\* the blank-free strings the seed's stripped fields are built from
Words == {"", "New", "New (Other)", "Used", "Mint", "new", "Flat", "Calculated",
          "http://x/1", "http://x/2", "http://img/seed.jpg",
          "Mint card. Ships fast.",
          "Pokemon Charizard Holo 1999 Base Set Unlimited 4/102 Rare Card Near Mint PSA Ready to Ship"}

\* str.strip()
Strip(s) == CHOOSE t \in Words : \E l \in Blanks, r \in Blanks : s = l \o t \o r

DigitChars == <<"0", "1", "2", "3", "4", "5", "6", "7", "8", "9">>

\* str(n) for an int n >= 0
RECURSIVE IntStr(_)
IntStr(n) == IF n < 10 THEN DigitChars[n + 1]
             ELSE IntStr(n \div 10) \o DigitChars[(n % 10) + 1]

\* the floats of the model, in thousandths
Floats == {7500, 10000, 19990, 19999, 25000}

\* the decimal literals float() reads as x (x in thousandths)
Literals(x) ==
    LET w  == IntStr(x \div 1000)
        d1 == DigitChars[((x \div 100) % 10) + 1]
        d2 == DigitChars[((x \div 10) % 10) + 1]
        d3 == DigitChars[(x % 10) + 1]
    IN  {w \o "." \o d1 \o d2 \o d3}
        \cup (IF x % 10 = 0 THEN {w \o "." \o d1 \o d2} ELSE {})
        \cup (IF x % 100 = 0 THEN {w \o "." \o d1} ELSE {})
        \cup (IF x % 1000 = 0 THEN {w, w \o "."} ELSE {})

\* float(s): Some(x), or NoneF for ValueError. float() ignores surrounding blanks.
Float(s) ==
    LET hits == {x \in Floats : \E l \in Blanks, r \in Blanks, t \in Literals(x) :
                                    s = l \o t \o r}
    IN  IF hits = {} THEN NoneF ELSE Some(CHOOSE x \in hits : TRUE)

\* f"{x:.2f}": round to hundredths, two digits after the point
Format2f(x) ==
    LET c == (x + 5) \div 10
    IN  IntStr(c \div 100) \o "." \o DigitChars[((c \div 10) % 10) + 1]
                                  \o DigitChars[(c % 10) + 1]


(***************************************************************************)
(* Module constants of the script                                          *)
(***************************************************************************)
CONDITION_MAP == ("New" :> 1000) @@ ("New (Other)" :> 1500) @@ ("Used" :> 3000)

DEFAULTS == [Format |-> "FixedPrice", DurationFixedPrice |-> "GTC",
             DurationAuction |-> "Days_7", Quantity |-> 1, Location |-> "",
             ShippingType |-> "Flat", PostagePaidBy |-> "Buyer"]

\* ScrapeResult(): every field at its dataclass default
ScrapeResult == [title |-> "", description_html |-> "", price |-> NoneF,
                 category_id |-> "", condition_text |-> "", images |-> << >>,
                 item_specifics |-> << >>]

(***************************************************************************)
(* The template's columns                                                  *)
(***************************************************************************)
ActionCol == "*Action(SiteID=US|Country=US|Currency=USD|Version=1193|CC=UTF-8)"

GradingCols == {"C:Card Condition", "CD:Professional Grader - (ID: 27501)",
                "CD:Grade - (ID: 27502)", "CDA:Certification Number - (ID: 27503)"}

TemplateColumns ==
    {ActionCol, "CustomLabel", "*Category", "*Title", "Subtitle", "*ConditionID",
     "*Description", "*Format", "*Duration", "*StartPrice", "*Quantity",
     "PictureURL", "ShippingType", "*Location", "ShippingService-1:Option",
     "ShippingService-1:Cost", "*ReturnsAcceptedOption", "ShippingCostPaidByOption",
     "C:Brand"} \cup GradingCols

\* what can follow the prefixes "C:" and "*Action(" in a column name
Tails == {"Card Condition", "Brand",
          "SiteID=US|Country=US|Currency=USD|Version=1193|CC=UTF-8)",
          "://img/1.jpg", "s://img/2.jpg"}

\* s.startswith(p)
StartsWith(s, p) == \E t \in Tails : s = p \o t

\* h.replace("C:", "").strip(), for a column name h that starts with "C:"
SpecificsKey(h) == CHOOSE t \in Tails : h = "C:" \o t

(***************************************************************************)
(* build_output_row, rule by rule.  row is the dict under construction.    *)
(***************************************************************************)
\* row = {h: "" for h in headers}
InitRow(hs) == [h \in {hs[i] : i \in DOMAIN hs} |-> ""]

\* Action: the first column that starts with "*Action(" gets "Add"
ActionRule(hs, row) ==
    LET at == {i \in DOMAIN hs : StartsWith(hs[i], "*Action(")}
    IN  IF at = {} THEN row
        ELSE Put(row, hs[CHOOSE i \in at : \A j \in at : i <= j], "Add")

\* Custom label: assigned whether or not the column is in headers
CustomLabelRule(sd, row) == Put(row, "CustomLabel", Get(sd, "CustomLabel", ""))

\* Category, Title, Subtitle
TextRules(hs, row, scraped_title, category_id) ==
    LET a == IF InList("*Category", hs) THEN Put(row, "*Category", Or(category_id, ""))
             ELSE row
        b == IF InList("*Title", hs) THEN Put(a, "*Title", scraped_title) ELSE a
    IN  IF InList("Subtitle", hs) THEN Put(b, "Subtitle", "") ELSE b

\* CondId without the two strip() calls
CondIdUnstripped(sd) ==
    LET cond_override == Or(Get(sd, "Condition", ""), Get(sd, "ConditionOverride", ""))
    IN  IF cond_override \in DOMAIN CONDITION_MAP THEN CONDITION_MAP[cond_override]
        ELSE 3000

\* cond_override and cond_id
CondId(sd) ==
    LET cond_override == Or(Strip(Get(sd, "Condition", "")),
                            Strip(Get(sd, "ConditionOverride", "")))
    IN  IF cond_override \in DOMAIN CONDITION_MAP THEN CONDITION_MAP[cond_override]
        ELSE 3000

\* Condition, Description
ConditionRule(hs, sd, row, scraped_desc_text) ==
    LET a == IF InList("*ConditionID", hs) THEN Put(row, "*ConditionID", IntStr(CondId(sd)))
             ELSE row
    IN  IF InList("*Description", hs) THEN Put(a, "*Description", scraped_desc_text)
        ELSE a

\* Format
FormatRule(hs, sd, row) ==
    IF InList("*Format", hs)
    THEN Put(row, "*Format", Get(sd, "FormatOverride", DEFAULTS.Format))
    ELSE row

\* Duration reads row["*Format"]: a KeyError when the dict has no such key
DurationRaises(hs, row) == InList("*Duration", hs) /\ "*Format" \notin DOMAIN row

\* Duration, when the read of row["*Format"] succeeds
DurationRule(hs, sd, row) ==
    IF InList("*Duration", hs) /\ ~DurationRaises(hs, row)
    THEN IF row["*Format"] = "FixedPrice"
         THEN Put(row, "*Duration", DEFAULTS.DurationFixedPrice)
         ELSE Put(row, "*Duration", Get(sd, "DurationOverride", DEFAULTS.DurationAuction))
    ELSE row

\* normalize_price without the fallback to the scraped price on ValueError
normalize_price_no_fallback(val, scraped) ==
    IF Truthy(val) THEN Float(val) ELSE scraped

normalize_price(val, scraped) ==
    IF Truthy(val)
    THEN IF Float(val) # NoneF THEN Float(val) ELSE scraped
    ELSE scraped

\* Price, Quantity
PriceRule(hs, sd, row, price) ==
    LET price_val == normalize_price(Or(Get(sd, "Price", None),
                                        Get(sd, "PriceOverride", None)), price)
        a == IF InList("*StartPrice", hs) /\ price_val # NoneF
             THEN Put(row, "*StartPrice", Format2f(price_val[1]))
             ELSE row
        qty == Or(Or(Get(sd, "Quantity", None), Get(sd, "QuantityOverride", None)),
                  IntStr(DEFAULTS.Quantity))
    IN  IF InList("*Quantity", hs) THEN Put(a, "*Quantity", qty) ELSE a

\* PictureURL
PictureRule(hs, sd, row, images) ==
    LET picture_url == Or(Strip(Get(sd, "PhotoURL", "")),
                          IF images # << >> THEN images[1] ELSE "")
    IN  IF InList("PictureURL", hs) THEN Put(row, "PictureURL", picture_url) ELSE row

\* ship_type
ShipType(sd) == Or(Or(Strip(Get(sd, "ShippingType", "")),
                      Strip(Get(sd, "ShippingTypeOverride", ""))),
                   DEFAULTS.ShippingType)

\* ShippingRule without the test of ship_type
ShippingRuleAnyType(hs, sd, row) ==
    LET a == IF InList("ShippingType", hs) THEN Put(row, "ShippingType", ShipType(sd))
             ELSE row
        b == IF InList("*Location", hs)
             THEN Put(a, "*Location", Or(Get(sd, "LocationOverride", ""), DEFAULTS.Location))
             ELSE a
        c == IF InList("ShippingService-1:Option", hs)
             THEN Put(b, "ShippingService-1:Option",
                      Or(Get(sd, "FlatService", ""), Get(sd, "ShippingService1_Option", "")))
             ELSE b
    IN  IF InList("ShippingService-1:Cost", hs)
        THEN Put(c, "ShippingService-1:Cost",
                 Or(Get(sd, "FlatCost", ""), Get(sd, "ShippingService1_Cost", "")))
        ELSE c

\* Shipping type, location, flat service and cost
ShippingRule(hs, sd, row) ==
    LET ship_type == ShipType(sd)
        a == IF InList("ShippingType", hs) THEN Put(row, "ShippingType", ship_type)
             ELSE row
        b == IF InList("*Location", hs)
             THEN Put(a, "*Location", Or(Get(sd, "LocationOverride", ""), DEFAULTS.Location))
             ELSE a
        c == IF ship_type = "Flat" /\ InList("ShippingService-1:Option", hs)
             THEN Put(b, "ShippingService-1:Option",
                      Or(Get(sd, "FlatService", ""), Get(sd, "ShippingService1_Option", "")))
             ELSE b
    IN  IF ship_type = "Flat" /\ InList("ShippingService-1:Cost", hs)
        THEN Put(c, "ShippingService-1:Cost",
                 Or(Get(sd, "FlatCost", ""), Get(sd, "ShippingService1_Cost", "")))
        ELSE c

\* Returns accepted, shipping cost payer
ReturnsRule(hs, sd, row) ==
    LET a == IF InList("*ReturnsAcceptedOption", hs)
             THEN Put(row, "*ReturnsAcceptedOption", "ReturnsAccepted")
             ELSE row
    IN  IF InList("ShippingCostPaidByOption", hs)
        THEN Put(a, "ShippingCostPaidByOption", Get(sd, "PostagePaidBy", "Buyer"))
        ELSE a

\* specifics_map
SpecificsMap(sd) ==
    ("C:Card Condition" :> Get(sd, "CardCondition", ""))
    @@ ("CD:Professional Grader - (ID: 27501)" :> Get(sd, "ProfessionalGrader", ""))
    @@ ("CD:Grade - (ID: 27502)" :> Get(sd, "Grade", ""))
    @@ ("CDA:Certification Number - (ID: 27503)" :> Get(sd, "CertNumber", ""))

\* the loop over specifics_map: a grading column in headers takes a non-empty seed value
SeedSpecificsRule(hs, sd, row) ==
    LET specifics_map == SpecificsMap(sd)
    IN  [k \in DOMAIN row |->
            IF k \in DOMAIN specifics_map /\ InList(k, hs) /\ specifics_map[k] # ""
            THEN specifics_map[k] ELSE row[k]]

\* the loop over headers: a "C:" column takes the non-empty scraped value of its key
ScrapedSpecificsRule(hs, row, scraped_specifics) ==
    [k \in DOMAIN row |->
        IF InList(k, hs) /\ StartsWith(k, "C:")
           /\ SpecificsKey(k) \in DOMAIN scraped_specifics
           /\ scraped_specifics[SpecificsKey(k)] # ""
        THEN scraped_specifics[SpecificsKey(k)] ELSE row[k]]

\* list(row.values()): the dict's values in insertion order
RowValuesDictOrder(hs, row) ==
    LET keys == IF InList("CustomLabel", hs) THEN hs ELSE Append(hs, "CustomLabel")
    IN  [i \in DOMAIN keys |-> row[keys[i]]]

\* return [row.get(h, "") for h in headers]
RowValues(hs, row) == [i \in DOMAIN hs |-> Get(row, hs[i], "")]

\* the call's outcome: exc is "" and row the returned list, or exc names the exception
build_output_row(hs, sd, scraped_title, scraped_desc_text, price, category_id, condition_text, images, scraped_specifics) ==
    LET r1 == CustomLabelRule(sd, ActionRule(hs, InitRow(hs)))
        r2 == ConditionRule(hs, sd, TextRules(hs, r1, scraped_title, category_id),
                            scraped_desc_text)
        r3 == FormatRule(hs, sd, r2)
        r4 == DurationRule(hs, sd, r3)
        r5 == PictureRule(hs, sd, PriceRule(hs, sd, r4, price), images)
        r6 == ReturnsRule(hs, sd, ShippingRule(hs, sd, r5))
        r7 == ScrapedSpecificsRule(hs, SeedSpecificsRule(hs, sd, r6), scraped_specifics)
    IN  IF DurationRaises(hs, r3)
        THEN [exc |-> "KeyError", row |-> << >>]
        ELSE [exc |-> "", row |-> RowValues(hs, r7)]

(***************************************************************************)
(* Inputs of build_output_row                                              *)
(***************************************************************************)
\* the sequences without repetition, of length at most n, over the set S
RECURSIVE Arrangements(_, _)
Arrangements(S, n) ==
    IF n = 0 THEN {<< >>}
    ELSE LET shorter == Arrangements(S, n - 1)
         IN  shorter \cup
             {Append(p[1], p[2]) :
                 p \in {q \in shorter \X S : Len(q[1]) = n - 1 /\ ~InList(q[2], q[1])}}

\* a seed row: the columns whose value is None are columns the seed table lacks
Row(f) == [k \in {c \in DOMAIN f : f[c] # None} |-> f[k]]

\* the template in the order of its header row
FullTemplate ==
    <<ActionCol, "CustomLabel", "*Category", "*Title", "Subtitle", "*ConditionID",
      "*Description", "*Format", "*Duration", "*StartPrice", "*Quantity",
      "PictureURL", "ShippingType", "*Location", "ShippingService-1:Option",
      "ShippingService-1:Cost", "*ReturnsAcceptedOption", "ShippingCostPaidByOption",
      "C:Card Condition", "C:Brand", "CD:Professional Grader - (ID: 27501)",
      "CD:Grade - (ID: 27502)", "CDA:Certification Number - (ID: 27503)">>

\* the listing of the spec's scenario, and one with every field empty
Widget == [title |-> "Widget", desc_text |-> "Mint card", price |-> Some(10000),
           category_id |-> "183454", condition_text |-> "Used",
           images |-> <<"http://img/1.jpg", "http://img/2.jpg">>,
           item_specifics |-> ("Brand" :> "Pokemon")]

Blank == [title |-> "", desc_text |-> "", price |-> NoneF, category_id |-> "",
          condition_text |-> "", images |-> << >>, item_specifics |-> << >>]

ScenarioSeed == [URL |-> "http://x/1", Condition |-> "New", Quantity |-> "2"]

RichSeed == [URL |-> "http://x/2", CustomLabel |-> "SKU-1", Condition |-> " New (Other) ",
             FormatOverride |-> "Auction", DurationOverride |-> "Days_3",
             Price |-> "19.99", PhotoURL |-> " http://img/seed.jpg",
             ShippingType |-> "Calculated", FlatService |-> "USPSPriority",
             LocationOverride |-> "Dublin", PostagePaidBy |-> "Seller",
             CardCondition |-> "Near Mint", Grade |-> "10"]

ScenarioSchema == <<ActionCol, "CustomLabel", "*Title", "*ConditionID", "*StartPrice",
                    "*Quantity", "PictureURL">>

\* any schema of at most MaxCols template columns, and the two whole schemas
SchemaInputs ==
    [hs : Arrangements(TemplateColumns, MaxCols) \cup {FullTemplate, ScenarioSchema},
     sd : {<< >>, ScenarioSeed, RichSeed},
     ls : {Blank, Widget}]

CondValues == {None, "", "  ", "New", " New ", "New (Other)", "Used", "Mint", "new"}

ConditionInputs ==
    [hs : Arrangements({"*ConditionID", "CustomLabel"}, 2),
     sd : {Row([Condition |-> a, ConditionOverride |-> b]) :
              a \in CondValues, b \in CondValues},
     ls : {[Blank EXCEPT !.condition_text = c] : c \in {"", "New", "Used"}}]

PriceValues == {None, "", " ", "19.99", " 25 ", "abc", "19.999"}

PriceInputs ==
    [hs : Arrangements({"*StartPrice", "*Quantity"}, 2),
     sd : {Row([Price |-> a, PriceOverride |-> b]) : a \in PriceValues, b \in PriceValues},
     ls : {[Blank EXCEPT !.price = p] : p \in {NoneF, Some(25000), Some(7500)}}]

FormatInputs ==
    [hs : Arrangements({"*Format", "*Duration", "*Title"}, 3),
     sd : {Row([FormatOverride |-> a, DurationOverride |-> b]) :
              a \in {None, "", "FixedPrice", "Auction"},
              b \in {None, "", "Days_3", "GTC"}},
     ls : {Widget}]

ShipTypeValues == {None, "", " Flat ", "Flat", "Calculated"}

ShippingInputs ==
    [hs : Arrangements({"ShippingType", "ShippingService-1:Option",
                        "ShippingService-1:Cost"}, 3),
     sd : {Row([ShippingType |-> a, ShippingTypeOverride |-> b, FlatService |-> c,
                ShippingService1_Option |-> d, FlatCost |-> e,
                ShippingService1_Cost |-> f]) :
              a \in ShipTypeValues, b \in ShipTypeValues,
              c \in {None, "", "USPSPriority"}, d \in {None, "", "UPSGround"},
              e \in {None, "", "4.99"}, f \in {None, "", "5.25"}},
     ls : {Blank}]

SpecificsInputs ==
    [hs : Arrangements({"C:Card Condition", "C:Brand", "CD:Grade - (ID: 27502)"}, 3),
     sd : {Row([CardCondition |-> a, Grade |-> b]) :
              a \in {None, "", "Near Mint"}, b \in {None, "10"}},
     ls : {[Blank EXCEPT !.item_specifics = Row(("Card Condition" :> a) @@ ("Brand" :> b)
                                                @@ ("Grade" :> c))] :
              a \in {None, "", "Used"}, b \in {None, "Pokemon"}, c \in {None, "9"}}]

RowInputs == SchemaInputs \cup ConditionInputs \cup PriceInputs \cup FormatInputs
             \cup ShippingInputs \cup SpecificsInputs

(***************************************************************************)
(* The driver's variables while only build_output_row is exercised, and    *)
(* build_output_row's while only the driver is                             *)
(***************************************************************************)
NotCalled == [called |-> FALSE, exc |-> "", row |-> << >>]

MainIdle ==
    /\ args = << >> /\ env = << >> /\ seed_df = << >> /\ idx = 0 /\ pc = "idle"
    /\ cur = << >> /\ preview_rows = << >> /\ final_rows = << >> /\ files = {}
    /\ printed = << >> /\ exc = "" /\ log = << >>

\* scrape_ebay_listing's variables while it is not the call under study
ScrapeIdle ==
    /\ page = << >> /\ opts = << >> /\ spc = "idle" /\ sc = << >>
    /\ driver = << >> /\ trace = << >>

(***************************************************************************)
(* One call of build_output_row on inputs drawn from RowInputs             *)
(***************************************************************************)
InitRowSpec ==
    /\ \E in \in RowInputs : headers = in.hs /\ seed = in.sd /\ listing = in.ls
    /\ result = NotCalled
    /\ MainIdle
    /\ ScrapeIdle

Build ==
    /\ pc = "idle"
    /\ ~result.called
    /\ result' = [called |-> TRUE] @@
                 build_output_row(headers, seed, listing.title, listing.desc_text,
                                  listing.price, listing.category_id,
                                  listing.condition_text, listing.images,
                                  listing.item_specifics)
    /\ UNCHANGED <<headers, seed, listing>>
    /\ UNCHANGED mainVars
    /\ UNCHANGED scrapeVars

NextRow == Build

SpecRow == InitRowSpec /\ [][NextRow]_vars

(***************************************************************************)
(* Properties of build_output_row (checked under SpecRow)                  *)
(***************************************************************************)
\* the call has returned a row
Returned == result.called /\ result.exc = ""

\* the schema has the column
Has(col) == InList(col, headers)

\* the returned row's value at the column's position in the schema
ColValue(col) == result.row[CHOOSE i \in DOMAIN headers : headers[i] = col]

\* the seed has a non-empty value in the column
Supplies(col) == Get(seed, col, "") # ""

\* C1: build_output_row is total over schemas: whatever subset of the template
\* columns the schema holds, in whatever order, the call returns a row and
\* raises nothing.
C1_TotalOverSchemas == result.called => result.exc = ""

\* C2: a specifics column filled from a non-empty seed value keeps the seed value
\* in the returned row, whatever the scraped item specifics hold.
C2_SeedSpecificsKept ==
    (Returned /\ Has("C:Card Condition") /\ Supplies("CardCondition"))
        => ColValue("C:Card Condition") = seed["CardCondition"]

\* C3: the returned row has one value per schema column, in schema order: the
\* columns whose value is a constant or a verbatim input hold it at their own
\* position, and the unconditionally assigned CustomLabel appears only at the
\* position of a CustomLabel column.
C3_RowMatchesSchema ==
    Returned =>
        /\ Len(result.row) = Len(headers)
        /\ \A i \in DOMAIN headers :
            /\ headers[i] = ActionCol => result.row[i] = "Add"
            /\ headers[i] = "*Title" => result.row[i] = listing.title
            /\ headers[i] = "*Description" => result.row[i] = listing.desc_text
            /\ headers[i] = "*Category" => result.row[i] = listing.category_id
            /\ headers[i] = "Subtitle" => result.row[i] = ""
            /\ headers[i] = "*ReturnsAcceptedOption" => result.row[i] = "ReturnsAccepted"
            /\ headers[i] = "CustomLabel" => result.row[i] = Get(seed, "CustomLabel", "")
            /\ (result.row[i] = "SKU-1" /\ Get(seed, "CustomLabel", "") = "SKU-1")
                    => headers[i] = "CustomLabel"

C3_Witness ==
    /\ Returned /\ Len(headers) >= 2 /\ ~Has("CustomLabel")
    /\ Get(seed, "CustomLabel", "") = "SKU-1"
    /\ Has("*Title") /\ headers[1] # "*Title" /\ listing.title = "Widget"

\* the condition override as the claim words it: Condition, else ConditionOverride,
\* each trimmed
ClaimedCondition ==
    IF Strip(Get(seed, "Condition", "")) # "" THEN Strip(Get(seed, "Condition", ""))
    ELSE Strip(Get(seed, "ConditionOverride", ""))

\* C4: *ConditionID is decided by the seed's condition override alone: "New" gives
\* "1000", "New (Other)" "1500", "Used" and everything else "3000"; the scraped
\* condition text plays no part.
C4_ConditionId ==
    (Returned /\ Has("*ConditionID")) =>
        ColValue("*ConditionID") =
            CASE ClaimedCondition = "New" -> "1000"
              [] ClaimedCondition = "New (Other)" -> "1500"
              [] OTHER -> "3000"

C4_Witness ==
    /\ Returned /\ Has("*ConditionID")
    /\ Get(seed, "Condition", "") = "  " /\ Get(seed, "ConditionOverride", "") = " New "
    /\ listing.condition_text = "Used"
    /\ ColValue("*ConditionID") = "1000"

\* the strings that are a decimal number with exactly two digits after the point
TwoDecimals ==
    {IntStr(w) \o "." \o DigitChars[a + 1] \o DigitChars[b + 1] :
        w \in 0..30, a \in 0..9, b \in 0..9}

\* the seed's price override as the claim words it: Price, else PriceOverride
ClaimedPriceOverride ==
    IF Get(seed, "Price", "") # "" THEN seed["Price"] ELSE Get(seed, "PriceOverride", "")

C6_FormatDuration ==
    (Returned /\ Has("*Format") /\ Has("*Duration")) =>
        LET fmt == IF Supplies("FormatOverride") THEN seed["FormatOverride"]
                   ELSE "FixedPrice"
            dur == IF fmt = "FixedPrice" THEN "GTC"
                   ELSE IF Supplies("DurationOverride") THEN seed["DurationOverride"]
                   ELSE "Days_7"
        IN  /\ ColValue("*Format") = fmt
            /\ ColValue("*Duration") = dur
            /\ ColValue("*Duration") # ""

\* the shipping type as the claim words it
ClaimedShipType ==
    IF Strip(Get(seed, "ShippingType", "")) # "" THEN Strip(Get(seed, "ShippingType", ""))
    ELSE IF Strip(Get(seed, "ShippingTypeOverride", "")) # ""
         THEN Strip(Get(seed, "ShippingTypeOverride", ""))
    ELSE "Flat"

\* short-form seed field if non-empty, else the long-form one
ShortElseLong(short, long) ==
    IF Supplies(short) THEN seed[short] ELSE Get(seed, long, "")

\* C7: the shipping type is never empty (seed ShippingType, else
\* ShippingTypeOverride, else "Flat"); the flat service and cost columns are
\* non-empty only when the type is "Flat", and then hold the seed's short-form
\* field if non-empty, else the long-form field.
C7_Shipping ==
    Returned =>
        /\ Has("ShippingType") =>
              ColValue("ShippingType") = ClaimedShipType /\ ColValue("ShippingType") # ""
        /\ Has("ShippingService-1:Option") =>
              ColValue("ShippingService-1:Option") =
                  IF ClaimedShipType = "Flat"
                  THEN ShortElseLong("FlatService", "ShippingService1_Option") ELSE ""
        /\ Has("ShippingService-1:Cost") =>
              ColValue("ShippingService-1:Cost") =
                  IF ClaimedShipType = "Flat"
                  THEN ShortElseLong("FlatCost", "ShippingService1_Cost") ELSE ""

C7_Witness ==
    /\ Returned /\ Has("ShippingType") /\ Has("ShippingService-1:Option")
    /\ Has("ShippingService-1:Cost")
    /\ Get(seed, "ShippingType", "") = "" /\ Get(seed, "ShippingTypeOverride", "") = " Flat "
    /\ Get(seed, "FlatService", "") = "" /\ ColValue("ShippingService-1:Option") = "UPSGround"
    /\ ColValue("ShippingService-1:Cost") = "4.99"

\* the flat columns stay empty for a type other than "Flat", whatever the seed holds
C7_WitnessNotFlat ==
    /\ Returned /\ Has("ShippingService-1:Option")
    /\ ClaimedShipType = "Calculated" /\ Supplies("FlatService")
    /\ ColValue("ShippingService-1:Option") = ""

(***************************************************************************)
(* openai_optimize and the text conversions of main                        *)
(***************************************************************************)
\* where a string longer than the cut can be split: the 80 characters kept ...
Heads == {"Pokemon Charizard Holo 1999 Base Set Unlimited 4/102 Rare Card Near Mint PSA Rea"}

\* ... and what is cut off
Rests == {"dy to Ship"}

\* s[:n]
Prefix(s, n) ==
    IF Len(s) <= n THEN s
    ELSE CHOOSE p \in Heads : Len(p) = n /\ \E t \in Rests : s = p \o t

\* the markup around the text of a description container
OpenTags == {"<div id=desc_div><p>", "<div class=item-desc>"}
CloseTags == {"</p></div>", "</div>"}
Texts == {"Mint card", "Holo, 1st edition"}

\* BeautifulSoup(html, "lxml").get_text("\n", strip=True)
PlainText(html) ==
    IF html = "" THEN ""
    ELSE CHOOSE t \in Texts : \E a \in OpenTags, b \in CloseTags : html = a \o t \o b

\* what a call of client.chat.completions.create can do: raise, answer without
\* usable content, or answer with content (a rewritten title or description)
ServiceOutcomes(is_title) ==
    {[kind |-> "error", content |-> ""],
     [kind |-> "malformed", content |-> ""],
     [kind |-> "ok", content |->
        IF is_title
        THEN " Pokemon Charizard Holo 1999 Base Set Unlimited 4/102 Rare Card Near Mint PSA Ready to Ship"
        ELSE "Mint card. Ships fast. "]}

\* openai_optimize without its try/except
openai_optimize_unguarded(text, is_title, e, svc) ==
    IF ~e.openai \/ ~e.api_key THEN [exc |-> "", out |-> text]
    ELSE IF svc.kind = "ok"
         THEN [exc |-> "", out |-> IF is_title THEN Prefix(Strip(svc.content), 80)
                                   ELSE Strip(svc.content)]
         ELSE [exc |-> "APIError", out |-> ""]

\* openai_optimize(text, is_title): exc is "" and out the returned str
openai_optimize(text, is_title, e, svc) ==
    IF ~e.openai THEN [exc |-> "", out |-> text]
    ELSE IF ~e.api_key THEN [exc |-> "", out |-> text]
    ELSE IF svc.kind = "ok"
         THEN [exc |-> "", out |-> IF is_title THEN Prefix(Strip(svc.content), 80)
                                   ELSE Strip(svc.content)]
         ELSE [exc |-> "", out |-> text]

(***************************************************************************)
(* main: the pipeline driver                                               *)
(***************************************************************************)
\* what scrape_ebay_listing returns for the pages behind the model's URLs
WidgetPage == [title |-> "Widget",
               description_html |-> "<div id=desc_div><p>Mint card</p></div>",
               price |-> Some(10000), category_id |-> "183454",
               condition_text |-> "Used", images |-> <<"http://img/1.jpg">>,
               item_specifics |-> ("Brand" :> "Pokemon")]

\* a page that yields nothing but a title and a description container
HoloPage == [ScrapeResult EXCEPT !.title = "Charizard",
                !.description_html = "<div class=item-desc>Holo, 1st edition</div>"]

Web(url) == IF url = "http://x/1" THEN {WidgetPage} ELSE {ScrapeResult, HoloPage}

\* the command lines: --optimize, --dry_run, --write_final.  With --dry_run the
\* preview path is always set, and the final path whenever the final CSV is due.
Args == {a \in [optimize : BOOLEAN, dry_run : BOOLEAN, write_final : BOOLEAN] :
            a.write_final => a.dry_run}

\* openai importable, OPENAI_API_KEY set
Envs == {[openai |-> FALSE, api_key |-> TRUE], [openai |-> TRUE, api_key |-> FALSE],
         [openai |-> TRUE, api_key |-> TRUE]}

\* a template build_output_row serves, and one it raises KeyError on
MainSchemas == {<<"CustomLabel", "*Title", "*Description">>, <<"*Title", "*Duration">>}

UrlValues == {"", "  ", " http://x/1 ", "http://x/2"}

\* the rows of a seed table without and with the per-row rewrite toggles
SeedRows ==
    {Row([URL |-> u, OptimizeTitle |-> t[1], OptimizeDescription |-> t[2]]) :
        u \in UrlValues, t \in {<<None, None>>, <<"Y", "N">>, <<"N", "Y">>}}

\* seed_df: every row of a table has the table's columns
SeedTables ==
    {t \in UNION {[1..n -> SeedRows] : n \in 0..MaxRows} :
        \A i, j \in DOMAIN t : DOMAIN t[i] = DOMAIN t[j]}

InitMain ==
    /\ headers \in MainSchemas
    /\ seed_df \in SeedTables
    /\ args \in Args
    /\ env \in Envs
    /\ idx = 0 /\ pc = "loop" /\ cur = << >>
    /\ preview_rows = << >> /\ final_rows = << >>
    /\ files = {} /\ printed = << >> /\ exc = "" /\ log = << >>
    /\ seed = << >> /\ listing = << >> /\ result = NotCalled
    /\ ScrapeIdle

\* url = seed.get("URL", "").strip()
UrlOfUnstripped(sd) == Get(sd, "URL", "")

UrlOf(sd) == Strip(Get(sd, "URL", ""))

\* for ... in seed_df.iterrows(): a row whose url is empty: continue
SkipRow ==
    /\ pc = "loop" /\ idx < Len(seed_df)
    /\ UrlOf(seed_df[idx + 1]) = ""
    /\ idx' = idx + 1
    /\ log' = Append(log, [kind |-> "skip", i |-> idx + 1])
    /\ UNCHANGED <<args, env, seed_df, pc, cur, preview_rows, final_rows, files,
                   printed, exc>>
    /\ UNCHANGED rowVars
    /\ UNCHANGED scrapeVars

\* for ... in seed_df.iterrows(): a row with a url
StartRow ==
    /\ pc = "loop" /\ idx < Len(seed_df)
    /\ UrlOf(seed_df[idx + 1]) # ""
    /\ idx' = idx + 1
    /\ cur' = [url |-> UrlOf(seed_df[idx + 1])]
    /\ pc' = "scrape"
    /\ UNCHANGED <<args, env, seed_df, preview_rows, final_rows, files, printed,
                   exc, log>>
    /\ UNCHANGED rowVars
    /\ UNCHANGED scrapeVars

\* FetchFails with the failure caught and the row skipped (except: continue)
FetchFailsRowSkipped ==
    /\ pc = "scrape"
    /\ pc' = "loop"
    /\ cur' = << >>
    /\ log' = Append(log, [kind |-> "fetch", i |-> idx, ok |-> FALSE])
    /\ UNCHANGED <<args, env, seed_df, idx, preview_rows, final_rows, files,
                   printed, exc>>
    /\ UNCHANGED rowVars
    /\ UNCHANGED scrapeVars

\* scrape_ebay_listing: fetch_page raises (transport error, raise_for_status);
\* nothing in main catches it
FetchFails ==
    /\ pc = "scrape"
    /\ pc' = "raised"
    /\ exc' = "HTTPError"
    /\ log' = Append(log, [kind |-> "fetch", i |-> idx, ok |-> FALSE])
    /\ UNCHANGED <<args, env, seed_df, idx, cur, preview_rows, final_rows, files,
                   printed>>
    /\ UNCHANGED rowVars
    /\ UNCHANGED scrapeVars

\* scrape_ebay_listing: the page is fetched and a ScrapeResult extracted
Scrape ==
    /\ pc = "scrape"
    /\ \E ls \in Web(cur.url) : cur' = [url |-> cur.url, scraped |-> ls]
    /\ pc' = "rewrite"
    /\ log' = Append(log, [kind |-> "fetch", i |-> idx, ok |-> TRUE])
    /\ UNCHANGED <<args, env, seed_df, idx, preview_rows, final_rows, files,
                   printed, exc>>
    /\ UNCHANGED rowVars
    /\ UNCHANGED scrapeVars

\* whether a call of openai_optimize was made and how the service call went
CallStatus(do_opt, e, svc) ==
    IF ~do_opt THEN "off"
    ELSE IF ~e.openai \/ ~e.api_key THEN "unavailable"
    ELSE IF svc.kind = "ok" THEN "ok" ELSE "failed"

\* scraped_desc_text, the toggles, opt_title and opt_desc
Rewrite ==
    /\ pc = "rewrite"
    /\ \E tsvc \in ServiceOutcomes(TRUE), dsvc \in ServiceOutcomes(FALSE) :
        LET sd == seed_df[idx]
            scraped == cur.scraped
            scraped_desc_text == PlainText(scraped.description_html)
            do_title_opt == Get(sd, "OptimizeTitle", "Y") = "Y" /\ args.optimize
            do_desc_opt == Get(sd, "OptimizeDescription", "Y") = "Y" /\ args.optimize
            t == IF do_title_opt THEN openai_optimize(scraped.title, TRUE, env, tsvc)
                 ELSE [exc |-> "", out |-> scraped.title]
            d == IF do_desc_opt THEN openai_optimize(scraped_desc_text, FALSE, env, dsvc)
                 ELSE [exc |-> "", out |-> scraped_desc_text]
            raised == IF t.exc # "" THEN t.exc ELSE d.exc
        IN  /\ log' = Append(log, [kind |-> "rewrite", i |-> idx,
                                   title_call |-> CallStatus(do_title_opt, env, tsvc),
                                   desc_call |-> CallStatus(do_desc_opt, env, dsvc),
                                   raised |-> raised])
            /\ IF raised # ""
               THEN pc' = "raised" /\ exc' = raised /\ UNCHANGED cur
               ELSE /\ cur' = [url |-> cur.url, scraped |-> scraped,
                               scraped_desc_text |-> scraped_desc_text,
                               opt_title |-> t.out, opt_desc |-> d.out]
                    /\ pc' = "reconcile" /\ UNCHANGED exc
    /\ UNCHANGED <<args, env, seed_df, idx, preview_rows, final_rows, files, printed>>
    /\ UNCHANGED rowVars
    /\ UNCHANGED scrapeVars

\* the preview row of the current iteration
PreviewRow(sd, c) ==
    [URL |-> c.url, Title_Scraped |-> c.scraped.title, Title_Optimized |-> c.opt_title,
     TitleLen_Scraped |-> Len(c.scraped.title), TitleLen_Optimized |-> Len(c.opt_title),
     Desc_Scraped_Snippet |-> Prefix(c.scraped_desc_text, 400),
     Desc_Optimized_Snippet |-> Prefix(c.opt_desc, 400),
     PhotoURL |-> Get(sd, "PhotoURL", ""),
     PostagePaidBy |-> Get(sd, "PostagePaidBy", "Buyer")]

\* preview_rows.append, build_output_row, final_rows.append
Reconcile ==
    /\ pc = "reconcile"
    /\ LET sd == seed_df[idx]
           built == build_output_row(headers, sd, cur.opt_title, cur.opt_desc,
                                     cur.scraped.price, cur.scraped.category_id,
                                     cur.scraped.condition_text, cur.scraped.images,
                                     cur.scraped.item_specifics)
       IN  /\ preview_rows' = IF args.dry_run
                              THEN Append(preview_rows, PreviewRow(sd, cur))
                              ELSE preview_rows
           /\ log' = Append(log, [kind |-> "row", i |-> idx, scraped |-> cur.scraped,
                                  opt_title |-> cur.opt_title, opt_desc |-> cur.opt_desc,
                                  built |-> built])
           /\ IF built.exc # ""
              THEN pc' = "raised" /\ exc' = built.exc /\ UNCHANGED <<final_rows, cur>>
              ELSE /\ final_rows' = Append(final_rows, built.row)
                   /\ pc' = "loop" /\ cur' = << >> /\ UNCHANGED exc
    /\ UNCHANGED <<args, env, seed_df, idx, files, printed>>
    /\ UNCHANGED rowVars
    /\ UNCHANGED scrapeVars

\* the loop is exhausted
EndLoop ==
    /\ pc = "loop" /\ idx = Len(seed_df)
    /\ pc' = "write_preview"
    /\ UNCHANGED <<args, env, seed_df, idx, cur, preview_rows, final_rows, files,
                   printed, exc, log>>
    /\ UNCHANGED rowVars
    /\ UNCHANGED scrapeVars

\* Write preview if needed
WritePreview ==
    /\ pc = "write_preview"
    /\ files' = IF args.dry_run
                THEN files \cup {[name |-> "preview", rows |-> preview_rows]}
                ELSE files
    /\ pc' = "write_final"
    /\ UNCHANGED <<args, env, seed_df, idx, cur, preview_rows, final_rows, printed,
                   exc, log>>
    /\ UNCHANGED rowVars
    /\ UNCHANGED scrapeVars

\* Write final if requested (or normal run)
WriteFinal ==
    /\ pc = "write_final"
    /\ IF ~args.dry_run \/ (args.dry_run /\ args.write_final)
       THEN /\ files' = files \cup {[name |-> "final", columns |-> headers,
                                     rows |-> final_rows]}
            /\ printed' = <<Len(final_rows)>>
       ELSE UNCHANGED <<files, printed>>
    /\ pc' = "done"
    /\ UNCHANGED <<args, env, seed_df, idx, cur, preview_rows, final_rows, exc, log>>
    /\ UNCHANGED rowVars
    /\ UNCHANGED scrapeVars

NextMain == \/ SkipRow \/ StartRow \/ FetchFails \/ Scrape \/ Rewrite \/ Reconcile
            \/ EndLoop \/ WritePreview \/ WriteFinal

SpecMain == InitMain /\ [][NextMain]_vars

(***************************************************************************)
(* Properties of main (checked under SpecMain)                             *)
(***************************************************************************)
\* the entries of the log of one kind, in order
Events(kind) == SelectSeq(log, LAMBDA e : e.kind = kind)

\* the seed row's URL is empty once trimmed: it is nothing but blanks
BlankUrl(sd) == Get(sd, "URL", "") \in Blanks

\* the positions in the seed table of the rows with a URL, in table order
KeptRows == SelectSeq([i \in 1..Len(seed_df) |-> i], LAMBDA i : ~BlankUrl(seed_df[i]))

\* the value of a column in a row built against headers
Cell(row, col) == row[CHOOSE i \in DOMAIN headers : headers[i] = col]

\* C8: in a completed run the final-rows buffer holds exactly the reconciled rows
\* of the seed rows whose trimmed URL is non-empty, in seed-table order; a row
\* with an empty URL is not fetched, adds nothing to either buffer and is not
\* counted in the number of rows reported.
C8_FinalRows ==
    pc = "done" =>
        LET rows == Events("row")
            fetches == Events("fetch")
        IN  /\ Len(final_rows) = Len(KeptRows)
            /\ Len(rows) = Len(KeptRows)
            /\ \A k \in DOMAIN final_rows :
                /\ rows[k].i = KeptRows[k]
                /\ final_rows[k] =
                      build_output_row(headers, seed_df[KeptRows[k]], rows[k].opt_title,
                                       rows[k].opt_desc, rows[k].scraped.price,
                                       rows[k].scraped.category_id,
                                       rows[k].scraped.condition_text,
                                       rows[k].scraped.images,
                                       rows[k].scraped.item_specifics).row
            /\ Len(fetches) = Len(KeptRows)
            /\ \A k \in DOMAIN fetches : fetches[k].i = KeptRows[k]
            /\ Len(preview_rows) = IF args.dry_run THEN Len(KeptRows) ELSE 0
            /\ \A k \in DOMAIN preview_rows :
                   preview_rows[k].URL = Strip(seed_df[KeptRows[k]]["URL"])
            /\ printed # << >> => printed[1] = Len(KeptRows)

C8_Witness ==
    /\ pc = "done" /\ Len(seed_df) = 2 /\ args.dry_run /\ args.write_final
    /\ seed_df[1]["URL"] = "  " /\ seed_df[2]["URL"] = " http://x/1 "
    /\ Len(final_rows) = 1 /\ Len(preview_rows) = 1 /\ printed = <<1>>
    /\ final_rows[1] = <<"", "Widget", "Mint card">>

\* C9: nothing is written before every seed row has been processed; a fetch is
\* never retried; a failed fetch ends the run at that row with the exception: no
\* later row is fetched and neither output is written, however many rows were
\* accumulated.
C9_WritesLastNoRetry ==
    /\ files # {} =>
          /\ idx = Len(seed_df) /\ exc = "" /\ pc \in {"write_final", "done"}
          /\ Len(Events("skip")) + Len(Events("row")) = Len(seed_df)
    /\ \A j, k \in DOMAIN Events("fetch") : j < k => Events("fetch")[j].i < Events("fetch")[k].i
    /\ \A k \in DOMAIN log :
          (log[k].kind = "fetch" /\ ~log[k].ok) =>
              /\ k = Len(log) /\ log[k].i = idx
              /\ pc = "raised" /\ exc = "HTTPError"
              /\ files = {} /\ printed = << >>
    /\ pc = "raised" => ~ENABLED NextMain

C9_Witness ==
    /\ pc = "raised" /\ exc = "HTTPError" /\ idx = 2
    /\ Len(final_rows) = 1 /\ Len(preview_rows) = 1
    /\ files = {} /\ ~ENABLED NextMain

\* a completed run writes its outputs after the last row
C9_WitnessWritten ==
    /\ pc = "done" /\ Len(final_rows) = 2
    /\ \E f \in files : f.name = "final" /\ f.rows = final_rows

\* C10: when no credential is configured or the text-generation call fails,
\* openai_optimize returns its input and raises nothing: the row's title and
\* description are the scraped title and the plain text of the scraped
\* description, whatever the toggles, and the driver goes on to reconcile the row.
C10_RewriteFallsBack ==
    /\ exc \in {"", "HTTPError", "KeyError"}
    /\ \A k \in DOMAIN log :
          /\ log[k].kind = "rewrite" =>
                /\ log[k].raised = ""
                /\ k = Len(log) => pc = "reconcile"
          /\ log[k].kind = "row" =>
                LET w == log[k - 1]
                    r == log[k]
                IN  /\ w.kind = "rewrite" /\ w.i = r.i
                    /\ w.title_call # "ok" =>
                          /\ r.opt_title = r.scraped.title
                          /\ r.built.exc = "" => Cell(r.built.row, "*Title") = r.scraped.title
                    /\ w.desc_call # "ok" =>
                          /\ r.opt_desc = PlainText(r.scraped.description_html)
                          /\ (r.built.exc = "" /\ InList("*Description", headers)) =>
                                Cell(r.built.row, "*Description")
                                    = PlainText(r.scraped.description_html)

C10_Witness ==
    /\ pc = "loop" /\ idx = 1 /\ Len(final_rows) = 1 /\ args.optimize
    /\ env.openai /\ env.api_key
    /\ log[Len(log) - 1].kind = "rewrite"
    /\ log[Len(log) - 1].title_call = "failed" /\ log[Len(log) - 1].desc_call = "failed"
    /\ final_rows[1] = <<"", "Widget", "Mint card">>

\* without a credential the toggles change nothing
C10_WitnessNoKey ==
    /\ Len(final_rows) = 1 /\ args.optimize /\ ~env.api_key
    /\ log[Len(log) - 1].kind = "rewrite"
    /\ log[Len(log) - 1].title_call = "unavailable"
    /\ final_rows[1] = <<"", "Widget", "Mint card">>

\* the service's answer is used when the call succeeds
RewriteUsed ==
    \E k \in DOMAIN final_rows :
        final_rows[k] = <<"", "Pokemon Charizard Holo 1999 Base Set Unlimited 4/102 Rare Card Near Mint PSA Rea",
                          "Mint card. Ships fast.">>

(***************************************************************************)
(* scrape_ebay_listing, after fetch_page has returned the page              *)
(***************************************************************************)
\* most div elements on a page
MaxDivs == 2
\* most entries of a metadata image list
MaxImgs == 2
\* most iframes the browser finds
MaxFrames == 2

\* str.lower(), and the folding re.I does: the identity except on the strings
\* that hold an upper-case letter
Lower(s) ==
    CASE s = "<HTML><body>Holo</body></HTML>" -> "<html><body>holo</body></html>"
      [] s = "Item-Desc-Box"                  -> "item-desc-box"
      [] OTHER                                -> s

\* what stands before and after a substring in the strings that are searched
Befores == {"", "<", "d-"}
Afters  == {"", "-box", "><body>holo</body></html>", "><p>ad</p></html>"}

\* sub in s
Contains(s, sub) == \E a \in Befores, b \in Afters : s = a \o sub \o b

\* ---- structured metadata: the Product block's image fields ----
\* a JSON value in an image list: a string, or an object such as an ImageObject
ImgItems == {[t |-> "str",  v |-> "http://img/1.jpg"],
             [t |-> "str",  v |-> "https://img/2.jpg"],
             [t |-> "str",  v |-> "/img/3.jpg"],
             [t |-> "dict", v |-> "ImageObject"]}

\* product.get(key): no such key, a single string, a list, or any other value
NoField      == [shape |-> "absent", items |-> << >>]
StrField(s)  == [shape |-> "str",    items |-> <<[t |-> "str", v |-> s]>>]
ListField(l) == [shape |-> "list",   items |-> l]
DictField    == [shape |-> "other",  items |-> <<[t |-> "dict", v |-> "ImageObject"]>>]

\* [v for v in val if isinstance(v, str) and v.startswith("http")]
RECURSIVE HttpStrings(_)
HttpStrings(items) ==
    IF items = << >> THEN << >>
    ELSE LET v == Head(items)
         IN  (IF v.t = "str" /\ StartsWith(v.v, "http") THEN <<v.v>> ELSE << >>)
                \o HttpStrings(Tail(items))

\* one round of "for key in ['image', 'images']"
FieldImages(val) ==
    IF val.shape = "list" THEN HttpStrings(val.items)
    ELSE IF val.shape = "str" /\ StartsWith(val.items[1].v, "http") THEN <<val.items[1].v>>
    ELSE << >>

\* a mutation of Dedupe: keeps every occurrence
DedupeKeepsAll(images) == images

\* list(dict.fromkeys(images)): a key keeps the place of its first insertion
RECURSIVE Dedupe(_)
Dedupe(images) ==
    IF images = << >> THEN << >>
    ELSE LET front == Dedupe(SubSeq(images, 1, Len(images) - 1))
             last  == images[Len(images)]
         IN  IF InList(last, front) THEN front ELSE Append(front, last)

\* lines 169-177
CollectImages(product) ==
    Dedupe(FieldImages(product.image) \o FieldImages(product.images))

\* ---- the landmark search for the description ----
\* a div of the page: its id, its class and its inner markup
DivIds     == {"", "desc_div", "viTabs_0_is", "vi-desc-maincntr"}
DivClasses == {"", "item-desc", "d-item-desc", "Item-Desc-Box"}
DivInners  == {"", "<p>Mint card</p>"}
Divs == {[id |-> i, class |-> c, inner |-> n] :
            i \in DivIds, c \in DivClasses, n \in DivInners}

\* desc_candidates, in the declared order: an id, or a pattern .*p.* for the class
desc_candidates == <<[attr |-> "id",    pat |-> "desc_div"],
                     [attr |-> "id",    pat |-> "viTabs_0_is"],
                     [attr |-> "id",    pat |-> "vi-desc-maincntr"],
                     [attr |-> "class", pat |-> "item-desc"],
                     [attr |-> "class", pat |-> "d-item-desc"]>>

\* whether the div answers to a candidate
Matches(div, cand) ==
    IF cand.attr = "id" THEN div.id = cand.pat
    ELSE div.class # "" /\ Contains(Lower(div.class), cand.pat)

\* soup.find(name, attrs=attrs): the first such div in document order,
\* 0 for None
Find(divs, cand) ==
    IF \E k \in DOMAIN divs : Matches(divs[k], cand)
    THEN CHOOSE k \in DOMAIN divs :
            /\ Matches(divs[k], cand)
            /\ \A j \in 1..(k - 1) : ~Matches(divs[j], cand)
    ELSE 0

\* str(el)
Markup(div) ==
    "<div"
        \o (IF div.class = "" THEN "" ELSE " class=\"" \o div.class \o "\"")
        \o (IF div.id = "" THEN "" ELSE " id=\"" \o div.id \o "\"")
        \o ">" \o div.inner \o "</div>"

\* lines 188-192, from candidate k on: "if el:" holds for every element found,
\* whatever it contains
RECURSIVE FindDescription(_, _)
FindDescription(divs, k) ==
    IF k > Len(desc_candidates) THEN ""
    ELSE LET el == Find(divs, desc_candidates[k])
         IN  IF el # 0 THEN Markup(divs[el])
             ELSE FindDescription(divs, k + 1)

\* ---- the rest of the page ----
\* an iframe as the browser meets it: switch_to.frame or page_source may raise,
\* otherwise page_source is the frame's markup
Frames == {[fails |-> "switch", source |-> ""],
           [fails |-> "source", source |-> ""],
           [fails |-> "none",   source |-> "<HTML><body>Holo</body></HTML>"],
           [fails |-> "none",   source |-> "<html><p>ad</p></html>"],
           [fails |-> "none",   source |-> "<p>ad</p>"]}

\* the sequences of length at most n over the set S
UpTo(S, n) == UNION {[1..k -> S] : k \in 0..n}

\* a page with nothing on it that the scraper looks for
BarePage == [product |-> << >>, image |-> NoField, images |-> NoField, h1 |-> "",
             offer_price |-> None, category_id |-> "", condition_label |-> "",
             specifics |-> << >>, divs |-> << >>, frames |-> << >>]

\* a listing with every piece of metadata and a description container
FullPage == [BarePage EXCEPT
                !.product = ("name" :> "Widget" @@ "itemCondition" :> "Used"),
                !.image = StrField("http://img/1.jpg"),
                !.offer_price = "10.00", !.category_id = "183454",
                !.specifics = ("Brand" :> "Pokemon"),
                !.divs = <<[id |-> "desc_div", class |-> "", inner |-> "<p>Mint card</p>"]>>]

\* a listing whose description sits in an iframe: the title in the markup only
FramedPage == [BarePage EXCEPT !.h1 = "Charizard", !.condition_label = "New"]

\* a listing whose description container is there but empty
HollowPage == [BarePage EXCEPT
                !.divs = <<[id |-> "desc_div", class |-> "", inner |-> ""]>>]

\* a listing whose Product block says "itemCondition": null
NullConditionPage == [BarePage EXCEPT !.product = ("itemCondition" :> None)]

\* the divs that carry at most one of the two attributes
LandmarkDivs == {d \in Divs : d.id = "" \/ d.class = ""}

ImageFields == {NoField, DictField}
                \cup {StrField(i.v) : i \in {j \in ImgItems : j.t = "str"}}
                \cup {ListField(l) : l \in UpTo(ImgItems, MaxImgs)}

ImagePages    == {[BarePage EXCEPT !.image = a, !.images = b] :
                      a \in ImageFields, b \in ImageFields}
LandmarkPages == {[BarePage EXCEPT !.divs = d] :
                      d \in UpTo(LandmarkDivs, MaxDivs)}
FramePages    == {[p EXCEPT !.frames = f] :
                      p \in {BarePage, FullPage, FramedPage, HollowPage,
                             NullConditionPage},
                      f \in UpTo(Frames, MaxFrames)}

\* use_selenium, and whether the selenium import succeeded (webdriver is not None)
Options == [use_selenium : BOOLEAN, webdriver : BOOLEAN]

ScrapeInputs ==
    {[page |-> p, opts |-> [use_selenium |-> FALSE, webdriver |-> TRUE]] :
        p \in ImagePages}
    \cup {[page |-> p, opts |-> o] : p \in LandmarkPages \cup FramePages, o \in Options}

\* the locals of the call; result = ScrapeResult()
Locals == [result |-> ScrapeResult, description |-> "", n |-> 0, i |-> 0,
           html_source |-> "", raising |-> ""]

NoDriver == [session |-> "none", context |-> 0]

InitScrape ==
    /\ \E in \in ScrapeInputs : page = in.page /\ opts = in.opts
    /\ spc = "start" /\ sc = Locals /\ driver = NoDriver /\ trace = << >>
    /\ headers = << >> /\ seed = << >> /\ listing = << >> /\ result = NotCalled
    /\ MainIdle

\* a driver call, and the document the browser was at when it was made
Call(op, i) == [op |-> op, i |-> i, at |-> driver.context]

\* lines 128-192: title, price, category, condition, images, and the landmark
\* search for the description
Extract ==
    /\ spc = "start"
    /\ sc' = [sc EXCEPT
                !.result = [@ EXCEPT
                    !.title = Or(Get(page.product, "name", None), page.h1),
                    !.price = IF Truthy(page.offer_price) THEN Float(page.offer_price)
                              ELSE NoneF,
                    !.category_id = page.category_id,
                    !.condition_text = Or(page.condition_label,
                                          Get(page.product, "itemCondition", "")),
                    !.images = CollectImages(page)],
                !.description = FindDescription(page.divs, 1)]
    /\ spc' = "fallback"
    /\ UNCHANGED <<page, opts, driver, trace>>
    /\ UNCHANGED rowVars
    /\ UNCHANGED mainVars

\* line 195
FallbackDue == opts.use_selenium /\ opts.webdriver /\ sc.description = ""

SkipFallback ==
    /\ spc = "fallback" /\ ~FallbackDue
    /\ spc' = "specifics"
    /\ UNCHANGED <<page, opts, sc, driver, trace>>
    /\ UNCHANGED rowVars
    /\ UNCHANGED mainVars

\* line 201: webdriver.Chrome(...) starts the browser
Acquire ==
    /\ spc = "fallback" /\ FallbackDue
    /\ driver' = [session |-> "open", context |-> 0]
    /\ trace' = Append(trace, Call("Chrome", 0))
    /\ spc' = "get"
    /\ UNCHANGED <<page, opts, sc>>
    /\ UNCHANGED rowVars
    /\ UNCHANGED mainVars

\* line 201 raises (no driver binary, no browser): it stands before the try
AcquireFails ==
    /\ spc = "fallback" /\ FallbackDue
    /\ sc' = [sc EXCEPT !.raising = "WebDriverException"]
    /\ spc' = "raised"
    /\ UNCHANGED <<page, opts, driver, trace>>
    /\ UNCHANGED rowVars
    /\ UNCHANGED mainVars

\* line 203: driver.get(url)
GetPage ==
    /\ spc = "get"
    /\ trace' = Append(trace, Call("get", 0))
    /\ spc' = "find"
    /\ UNCHANGED <<page, opts, sc, driver>>
    /\ UNCHANGED rowVars
    /\ UNCHANGED mainVars

\* a mutation of GetPageFails: the exception leaves the call without the finally
GetPageFailsNoFinally ==
    /\ spc = "get"
    /\ trace' = Append(trace, Call("get", 0))
    /\ sc' = [sc EXCEPT !.raising = "WebDriverException"]
    /\ spc' = "raised"
    /\ UNCHANGED <<page, opts, driver>>
    /\ UNCHANGED rowVars
    /\ UNCHANGED mainVars

\* line 203 raises: the try has no except, so control goes to the finally
GetPageFails ==
    /\ spc = "get"
    /\ trace' = Append(trace, Call("get", 0))
    /\ sc' = [sc EXCEPT !.raising = "WebDriverException"]
    /\ spc' = "quit"
    /\ UNCHANGED <<page, opts, driver>>
    /\ UNCHANGED rowVars
    /\ UNCHANGED mainVars

\* line 205: driver.find_elements(By.TAG_NAME, "iframe"), in document order
FindElements ==
    /\ spc = "find"
    /\ trace' = Append(trace, Call("find_elements", 0))
    /\ sc' = [sc EXCEPT !.n = Len(page.frames), !.i = 1]
    /\ spc' = "loop"
    /\ UNCHANGED <<page, opts, driver>>
    /\ UNCHANGED rowVars
    /\ UNCHANGED mainVars

\* line 205 raises
FindElementsFails ==
    /\ spc = "find"
    /\ trace' = Append(trace, Call("find_elements", 0))
    /\ sc' = [sc EXCEPT !.raising = "WebDriverException"]
    /\ spc' = "quit"
    /\ UNCHANGED <<page, opts, driver>>
    /\ UNCHANGED rowVars
    /\ UNCHANGED mainVars

\* line 208: driver.switch_to.frame(iframe)
SwitchFrame ==
    /\ spc = "loop" /\ sc.i <= sc.n
    /\ page.frames[sc.i].fails # "switch"
    /\ trace' = Append(trace, Call("frame", sc.i))
    /\ driver' = [driver EXCEPT !.context = sc.i]
    /\ spc' = "source"
    /\ UNCHANGED <<page, opts, sc>>
    /\ UNCHANGED rowVars
    /\ UNCHANGED mainVars

\* line 208 raises; the browser may or may not have entered the frame
SwitchFrameFails ==
    /\ spc = "loop" /\ sc.i <= sc.n
    /\ page.frames[sc.i].fails = "switch"
    /\ trace' = Append(trace, Call("frame", sc.i))
    /\ \E c \in {0, sc.i} : driver' = [driver EXCEPT !.context = c]
    /\ spc' = "handler"
    /\ UNCHANGED <<page, opts, sc>>
    /\ UNCHANGED rowVars
    /\ UNCHANGED mainVars

\* line 210: html_source = driver.page_source
PageSource ==
    /\ spc = "source"
    /\ page.frames[sc.i].fails # "source"
    /\ trace' = Append(trace, Call("page_source", sc.i))
    /\ sc' = [sc EXCEPT !.html_source = page.frames[sc.i].source]
    /\ spc' = "test"
    /\ UNCHANGED <<page, opts, driver>>
    /\ UNCHANGED rowVars
    /\ UNCHANGED mainVars

\* line 210 raises
PageSourceFails ==
    /\ spc = "source"
    /\ page.frames[sc.i].fails = "source"
    /\ trace' = Append(trace, Call("page_source", sc.i))
    /\ spc' = "handler"
    /\ UNCHANGED <<page, opts, sc, driver>>
    /\ UNCHANGED rowVars
    /\ UNCHANGED mainVars

\* line 211
IsHtml(html_source) == Contains(Lower(html_source), "html")

\* lines 212-214: the frame's markup is the description; back to the top; break
Match ==
    /\ spc = "test" /\ IsHtml(sc.html_source)
    /\ sc' = [sc EXCEPT !.description = sc.html_source]
    /\ trace' = Append(trace, Call("default_content", sc.i))
    /\ driver' = [driver EXCEPT !.context = 0]
    /\ spc' = "quit"
    /\ UNCHANGED <<page, opts>>
    /\ UNCHANGED rowVars
    /\ UNCHANGED mainVars

\* line 215: back to the top, on to the next iframe
NoMatch ==
    /\ spc = "test" /\ ~IsHtml(sc.html_source)
    /\ trace' = Append(trace, Call("default_content", sc.i))
    /\ driver' = [driver EXCEPT !.context = 0]
    /\ sc' = [sc EXCEPT !.i = @ + 1]
    /\ spc' = "loop"
    /\ UNCHANGED <<page, opts>>
    /\ UNCHANGED rowVars
    /\ UNCHANGED mainVars

\* lines 216-218: except Exception: back to the top; continue
Handler ==
    /\ spc = "handler"
    /\ trace' = Append(trace, Call("default_content", sc.i))
    /\ driver' = [driver EXCEPT !.context = 0]
    /\ sc' = [sc EXCEPT !.i = @ + 1]
    /\ spc' = "loop"
    /\ UNCHANGED <<page, opts>>
    /\ UNCHANGED rowVars
    /\ UNCHANGED mainVars

\* the for loop runs out of iframes
LoopExit ==
    /\ spc = "loop" /\ sc.i > sc.n
    /\ spc' = "quit"
    /\ UNCHANGED <<page, opts, sc, driver, trace>>
    /\ UNCHANGED rowVars
    /\ UNCHANGED mainVars

\* lines 219-220: finally: driver.quit(); an exception on its way goes on
Quit ==
    /\ spc = "quit"
    /\ trace' = Append(trace, Call("quit", 0))
    /\ driver' = [driver EXCEPT !.session = "quit"]
    /\ spc' = IF sc.raising # "" THEN "raised" ELSE "specifics"
    /\ UNCHANGED <<page, opts, sc>>
    /\ UNCHANGED rowVars
    /\ UNCHANGED mainVars

\* lines 222-238: the description, the item specifics, return result
Finish ==
    /\ spc = "specifics"
    /\ sc' = [sc EXCEPT !.result = [@ EXCEPT !.description_html = sc.description,
                                             !.item_specifics = page.specifics]]
    /\ spc' = "returned"
    /\ UNCHANGED <<page, opts, driver, trace>>
    /\ UNCHANGED rowVars
    /\ UNCHANGED mainVars

NextScrape == \/ Extract \/ SkipFallback \/ Acquire \/ AcquireFails
              \/ GetPage \/ GetPageFails \/ FindElements \/ FindElementsFails
              \/ SwitchFrame \/ SwitchFrameFails \/ PageSource \/ PageSourceFails
              \/ Match \/ NoMatch \/ Handler \/ LoopExit \/ Quit \/ Finish

SpecScrape == InitScrape /\ [][NextScrape]_vars

(***************************************************************************)
(* Claims about scrape_ebay_listing                                        *)
(***************************************************************************)
\* the frames the browser was switched to, in the order of the calls
FrameCalls == SelectSeq(trace, LAMBDA c : c.op = "frame")

\* the markup of the first iframe that can be read and holds "html", "" if none
RECURSIVE FirstMatchingFrame(_)
FirstMatchingFrame(frames) ==
    IF frames = << >> THEN ""
    ELSE IF Head(frames).fails = "none" /\ IsHtml(Head(frames).source)
         THEN Head(frames).source
         ELSE FirstMatchingFrame(Tail(frames))

\* C11: the browser fallback runs only when it is enabled and the landmark
\* search left the description empty; a session that was acquired has been
\* quit when scrape_ebay_listing returns or raises, on every path; the browser
\* is at the top-level document whenever a frame is probed and when the loop
\* is left; the frames are probed in document order and the first matching
\* frame supplies the description.
C11_Fallback ==
    /\ (trace # << >> \/ driver.session # "none") =>
            /\ opts.use_selenium /\ opts.webdriver
            /\ FindDescription(page.divs, 1) = ""
    /\ spc \in {"returned", "raised"} =>
            /\ driver.session # "open"
            /\ trace # << >> => driver.session = "quit" /\ trace[Len(trace)].op = "quit"
    /\ \A k \in DOMAIN trace : trace[k].op = "frame" => trace[k].at = 0
    /\ spc \in {"loop", "quit"} => driver.context = 0
    /\ \A j \in DOMAIN FrameCalls : FrameCalls[j].i = j
    /\ (spc = "returned" /\ driver.session = "quit") =>
            sc.result.description_html = FirstMatchingFrame(page.frames)

\* a frame that cannot be entered, then the frame that supplies the description
C11_Witness ==
    /\ spc = "returned" /\ driver = [session |-> "quit", context |-> 0]
    /\ page.frames = <<[fails |-> "switch", source |-> ""],
                       [fails |-> "none", source |-> "<HTML><body>Holo</body></HTML>"]>>
    /\ Len(FrameCalls) = 2
    /\ sc.result.description_html = "<HTML><body>Holo</body></HTML>"

\* the page load fails: the session is quit and the exception goes on
C11_WitnessLoadFails ==
    /\ spc = "raised" /\ driver.session = "quit"
    /\ Len(trace) = 3 /\ trace[2].op = "get" /\ trace[3].op = "quit"

\* no frame matches: every frame was probed, the description stays empty
C11_WitnessNoMatch ==
    /\ spc = "returned" /\ driver.session = "quit"
    /\ page.frames = <<[fails |-> "none", source |-> "<p>ad</p>"],
                       [fails |-> "source", source |-> ""]>>
    /\ Len(FrameCalls) = 2
    /\ sc.result.description_html = ""

\* the first of two matching frames is the one taken, the second is not probed
C11_WitnessFirstOfTwo ==
    /\ spc = "returned"
    /\ page.frames = <<[fails |-> "none", source |-> "<html><p>ad</p></html>"],
                       [fails |-> "none", source |-> "<HTML><body>Holo</body></HTML>"]>>
    /\ Len(FrameCalls) = 1
    /\ sc.result.description_html = "<html><p>ad</p></html>"

\* the fallback is enabled but a landmark supplied the description: no session
C11_WitnessNotRun ==
    /\ spc = "returned" /\ opts.use_selenium /\ opts.webdriver
    /\ sc.result.description_html # "" /\ driver = NoDriver /\ trace = << >>
    /\ page.frames # << >>

\* C12: once the page is fetched, extraction never fails: whatever the page
\* holds, and whatever goes wrong with the browser session when the fallback
\* is enabled, scrape_ebay_listing returns a ScrapeResult whose every field
\* is defined (the text fields a string, "" by default), and raises nothing.
C12_ExtractionNeverFails ==
    /\ spc # "raised"
    /\ spc = "returned" =>
            /\ sc.result.title # None
            /\ sc.result.condition_text # None
            /\ sc.result.category_id # None
            /\ sc.result.description_html # None

\* a page with nothing on it, the fallback off: every field at its default
DefaultsReturned ==
    /\ spc = "returned" /\ page = BarePage /\ ~opts.use_selenium
    /\ sc.result = ScrapeResult

\* the browser cannot be started: the exception leaves scrape_ebay_listing
BrowserStartRaises ==
    /\ spc = "raised" /\ driver.session = "none" /\ page = BarePage

\* the page load fails in the browser: the session is quit, the exception goes on
PageLoadRaises ==
    /\ spc = "raised" /\ driver.session = "quit" /\ page = BarePage
    /\ trace[Len(trace) - 1].op = "get"

\* "itemCondition": null in the Product block: the condition is None
NullConditionReturned ==
    /\ spc = "returned" /\ page.product = ("itemCondition" :> None)
    /\ sc.result.condition_text = None

\* the values the two image fields hold, 'image' before 'images'
ImageValues == page.image.items \o page.images.items

\* a string that starts with 'http'
IsHttpString(item) == item.t = "str" /\ StartsWith(item.v, "http")

\* where a string first occurs among the values
FirstAt(values, s) ==
    CHOOSE j \in DOMAIN values :
        /\ values[j].v = s
        /\ \A h \in 1..(j - 1) : values[h].v # s

\* a sequence of strings as a metadata list
AsField(strings) == ListField([k \in DOMAIN strings |-> [t |-> "str", v |-> strings[k]]])

\* C13: whatever the image fields hold (a list or a single string, repeats,
\* entries that are no URLs), the scraped images are exactly the values that
\* are strings starting with 'http', each exactly once, in the order of their
\* first occurrence, and collecting the images of the result again yields the
\* same sequence.
C13_Images ==
    spc # "start" =>
        LET imgs == sc.result.images
        IN  /\ \A k \in DOMAIN imgs :
                  \E j \in DOMAIN ImageValues :
                      IsHttpString(ImageValues[j]) /\ ImageValues[j].v = imgs[k]
            /\ \A j \in DOMAIN ImageValues :
                  IsHttpString(ImageValues[j]) =>
                      Cardinality({k \in DOMAIN imgs : imgs[k] = ImageValues[j].v}) = 1
            /\ \A k1 \in DOMAIN imgs, k2 \in DOMAIN imgs :
                  k1 < k2 => FirstAt(ImageValues, imgs[k1]) < FirstAt(ImageValues, imgs[k2])
            /\ CollectImages([image |-> AsField(imgs), images |-> NoField]) = imgs

\* a repeat across the two fields and an entry that is no URL
C13_Witness ==
    /\ spc = "returned"
    /\ page.image = ListField(<<[t |-> "str", v |-> "https://img/2.jpg"],
                                [t |-> "str", v |-> "http://img/1.jpg"]>>)
    /\ page.images = ListField(<<[t |-> "str", v |-> "http://img/1.jpg"],
                                 [t |-> "str", v |-> "/img/3.jpg"]>>)
    /\ sc.result.images = <<"https://img/2.jpg", "http://img/1.jpg">>

\* a repeat inside one list, and an object among the entries
C13_WitnessRepeat ==
    /\ spc = "returned"
    /\ page.image = ListField(<<[t |-> "str", v |-> "http://img/1.jpg"],
                                [t |-> "str", v |-> "http://img/1.jpg"]>>)
    /\ page.images = ListField(<<[t |-> "dict", v |-> "ImageObject"]>>)
    /\ sc.result.images = <<"http://img/1.jpg">>

\* a single string that is a URL
C13_WitnessString ==
    /\ spc = "returned"
    /\ page.image = StrField("https://img/2.jpg") /\ page.images = NoField
    /\ sc.result.images = <<"https://img/2.jpg">>

\* the first landmark, in the declared order from candidate k on, whose match
\* has content
RECURSIVE FirstNonEmptyLandmark(_, _)
FirstNonEmptyLandmark(divs, k) ==
    IF k > Len(desc_candidates) THEN ""
    ELSE LET el == Find(divs, desc_candidates[k])
         IN  IF el # 0 /\ divs[el].inner # "" THEN Markup(divs[el])
             ELSE FirstNonEmptyLandmark(divs, k + 1)

\* C14: the landmark search takes the first landmark, in the declared order,
\* whose match is not empty: a landmark that is present without content is
\* passed over for a later one with content, and the description stays empty
\* only if no landmark yields content.
C14_FirstNonEmptyMatch ==
    spc = "fallback" => sc.description = FirstNonEmptyLandmark(page.divs, 1)

\* the search does follow the declared order among landmarks with content
LandmarkOrderKept ==
    /\ spc = "fallback"
    /\ page.divs = <<[id |-> "", class |-> "item-desc", inner |-> "<p>Mint card</p>"],
                     [id |-> "viTabs_0_is", class |-> "", inner |-> "<p>Mint card</p>"]>>
    /\ sc.description = "<div id=\"viTabs_0_is\"><p>Mint card</p></div>"

\* an empty container ahead of one with content is what the search returns
EmptyLandmarkTaken ==
    /\ spc = "fallback"
    /\ page.divs = <<[id |-> "desc_div", class |-> "", inner |-> ""],
                     [id |-> "viTabs_0_is", class |-> "", inner |-> "<p>Mint card</p>"]>>
    /\ sc.description = "<div id=\"desc_div\"></div>"

==========================================================================
